---- MODULE Spec2Model ----
(***************************************************************************)
(* Model of src/main.py: the poll loop of main() that watches the Sent     *)
(* folder, classifies each newly observed message and, on a positive       *)
(* verdict, creates a follow-up draft and a calendar reminder; and the     *)
(* pure function extract_body over MIME payload trees.                     *)
(***************************************************************************)
EXTENDS Integers, Sequences, FiniteSets, TLC

\* ---------------------------------------------------------------- bounds

\* Number of messages the user sends during a run (identifiers 1..MaxMsgs).
MaxMsgs == 3
\* Number of consecutive failures of the listing call that are explored.
MaxFailures == 2
\* Number of nodes of a payload tree handed to extract_body.
MaxNodes == 4

VARIABLES
    mailbox,             \* Sent folder, oldest first (sequence of identifiers)
    sentCount,           \* identifiers handed out so far
    pc,                  \* position of main() in the loop
    last_message_id,     \* main: last_message_id (0 is None)
    first,               \* main: first
    current_message_id,  \* main: current_message_id (0 before the first listing)
    result,              \* text returned by evaluate_followup in this tick
    calls,               \* external calls issued while processing in this tick
    returned,            \* how many of them returned without raising
    failed,              \* the call of this tick that raised, or "none"
    tickKind,            \* what the listing of this tick led to
    failures,            \* consecutive failures of the listing call
    interrupted,         \* a KeyboardInterrupt was delivered
    firstSeen,           \* identifier adopted by the first non-empty listing
    processed,           \* identifiers whose processing tick has ended
    classified,          \* identifiers for which evaluate_followup returned
    sentAfterFirst,      \* identifiers sent after the first identifier was adopted
    drafts,              \* drafts present in the mail store (by message id)
    payload,             \* argument of extract_body
    body_text,           \* value returned by extract_body
    xpc                  \* "call" before extract_body is applied, "return" after

loopVars == <<pc, last_message_id, first, current_message_id, result, calls,
              returned, failed, tickKind, failures, interrupted, firstSeen,
              processed, classified, drafts>>
envVars == <<mailbox, sentCount, sentAfterFirst>>
bodyVars == <<payload, body_text, xpc>>
vars == <<loopVars, envVars, bodyVars>>

Ids == 1..MaxMsgs
None == 0

\* ------------------------------------------------- extract_body (pure part)

TEXT_PLAIN == "text/plain"
MimeTypes == {"text/plain", "text/html"}

\* body.data values: absent/empty, base64url of "A", of "B", and of the single
\* byte 0xFF, which is not valid UTF-8.
NoData == ""
DataValues == {"", "QQ==", "Qg==", "_w=="}

\* base64.urlsafe_b64decode(data).decode("utf-8", errors="ignore")
decode_base64(data) ==
    CASE data = "QQ==" -> "A"
      [] data = "Qg==" -> "B"
      [] data = "_w==" -> ""
      [] OTHER -> ""

Labels == [data : DataValues, mimeType : MimeTypes]

\* A payload tree of n nodes, its nodes numbered 1..n in pre-order: lab gives
\* every node its body data and MIME type, par every node but the root its
\* parent, a node of smaller number; the parts of a node are its children in
\* the order of their numbers.
ParentMaps(n) == {par \in [2..n -> 1..n] : \A j \in 2..n : par[j] < j}

RECURSIVE Ascending(_)
Ascending(S) ==
    IF S = {} THEN <<>>
    ELSE LET m == CHOOSE x \in S : \A y \in S : x <= y
         IN <<m>> \o Ascending(S \ {m})

RECURSIVE PayloadTree(_, _, _, _)
PayloadTree(lab, par, n, i) ==
    LET children == Ascending({j \in 2..n : par[j] = i})
    IN [data |-> lab[i].data,
        mimeType |-> lab[i].mimeType,
        parts |-> IF children = <<>> THEN <<>>
                  ELSE [k \in 1..Len(children) |->
                           PayloadTree(lab, par, n, children[k])]]

EmptyPayload == [data |-> NoData, mimeType |-> "text/html", parts |-> <<>>]

\* Mutant of PlainPartMatches: the body data of the part is not tested.
PlainPartMatches_NoDataTest(part) == part.mimeType = TEXT_PLAIN

\* Lines 101-102: the part is text/plain and carries body data.
PlainPartMatches(part) == part.mimeType = TEXT_PLAIN /\ part.data # NoData

RECURSIVE FirstPlainPart(_, _)
\* First loop of extract_body (lines 100-103), from part i on: the index of the
\* part it returns from, 0 when the loop runs to its end.
FirstPlainPart(parts, i) ==
    IF i > Len(parts) THEN 0
    ELSE IF PlainPartMatches(parts[i]) THEN i
    ELSE FirstPlainPart(parts, i + 1)

RECURSIVE extract_body(_), RecurseParts(_, _)
\* Second loop of extract_body (lines 105-108), from part i on.
RecurseParts(parts, i) ==
    IF i > Len(parts) THEN ""
    ELSE LET text == extract_body(parts[i])
         IN IF text # "" THEN text ELSE RecurseParts(parts, i + 1)

extract_body(p) ==
    IF p.data # NoData THEN decode_base64(p.data)
    ELSE LET k == FirstPlainPart(p.parts, 1)
         IN IF k # 0 THEN decode_base64(p.parts[k].data)
            ELSE RecurseParts(p.parts, 1)

\* ----------------------------------------------------------- the poll loop

CallOrder == <<"fetch_full_message", "evaluate_followup", "generate_followup_draft",
               "create_gmail_draft", "create_followup_reminder">>

\* Texts evaluate_followup may return, by what extract_json and the lookup of
\* "follow_up_required" make of them: a JSON object with the key true, with the
\* key false, text that is not JSON, and a JSON object without the key.
Parseable == {"true", "false"}
Unparseable == {"badjson", "nokey"}

\* Mutant of FollowUpRequired: the parsed object itself is tested for truth.
FollowUpRequired_TestsObject(r) == r \in Parseable

\* Line 426: parsed_results["follow_up_required"]
FollowUpRequired(r) == r = "true"

\* Mutant of LastAfterError: the handler does not record the message.
LastAfterError_NotAdvanced(cur, last) == last

\* Line 443: last_message_id = current_message_id in the except clause.
LastAfterError(cur, last) == cur

\* Line 439: last_message_id = current_message_id after the verdict branch.
LastAfterSuccess(cur, last) == cur

\* Where a KeyboardInterrupt delivered at position p leaves main: the try of
\* lines 399-447 is left through the clause of line 449 and the loop breaks;
\* the sleep of line 455 runs inside the clause of line 452, where no clause
\* of the same try applies, and the outer try catches HttpError only.
InterruptTarget(p) == IF p = "backoff" THEN "escaped" ELSE "stopped"

Running == pc \notin {"stopped", "escaped"}

LoopInit ==
    /\ pc = "list"
    /\ last_message_id = None
    /\ first = TRUE
    /\ current_message_id = None
    /\ result = "none"
    /\ calls = <<>>
    /\ returned = 0
    /\ failed = "none"
    /\ tickKind = "none"
    /\ failures = 0
    /\ interrupted = FALSE
    /\ firstSeen = None
    /\ processed = {}
    /\ classified = {}
    /\ drafts = {}

EnvInit ==
    /\ mailbox = <<>>
    /\ sentCount = 0
    /\ sentAfterFirst = {}

Init ==
    /\ LoopInit
    /\ EnvInit
    /\ payload = EmptyPayload
    /\ body_text = ""
    /\ xpc = "return"

\* The user sends a message: it becomes the most recent of the Sent folder.
SendMail ==
    /\ Running
    /\ sentCount < MaxMsgs
    /\ sentCount' = sentCount + 1
    /\ mailbox' = Append(mailbox, sentCount + 1)
    /\ sentAfterFirst' = IF first THEN sentAfterFirst
                         ELSE sentAfterFirst \cup {sentCount + 1}
    /\ UNCHANGED <<loopVars, bodyVars>>

\* The user deletes a message of the Sent folder.
DeleteMail ==
    /\ Running
    /\ \E i \in DOMAIN mailbox :
          mailbox' = SubSeq(mailbox, 1, i - 1) \o SubSeq(mailbox, i + 1, Len(mailbox))
    /\ UNCHANGED <<sentCount, sentAfterFirst, loopVars, bodyVars>>

NewTick ==
    /\ result' = "none"
    /\ calls' = <<>>
    /\ returned' = 0
    /\ failed' = "none"

\* Mutant of ListFails: the failure of the listing call leaves main.
ListFails_Escapes ==
    /\ pc = "list"
    /\ failures < MaxFailures
    /\ pc' = "escaped"
    /\ failures' = failures + 1
    /\ tickKind' = "list_error"
    /\ NewTick
    /\ UNCHANGED <<last_message_id, first, current_message_id, interrupted, firstSeen,
                   processed, classified, drafts, envVars, bodyVars>>

\* Line 400 raises; the clause of line 452 prints and goes to the sleep of line 455.
ListFails ==
    /\ pc = "list"
    /\ failures < MaxFailures
    /\ pc' = "backoff"
    /\ failures' = failures + 1
    /\ tickKind' = "list_error"
    /\ NewTick
    /\ UNCHANGED <<last_message_id, first, current_message_id, interrupted, firstSeen,
                   processed, classified, drafts, envVars, bodyVars>>

\* Lines 400-405: the listing is empty.
ListEmpty ==
    /\ pc = "list"
    /\ mailbox = <<>>
    /\ pc' = "sleep"
    /\ failures' = 0
    /\ tickKind' = "empty"
    /\ NewTick
    /\ UNCHANGED <<last_message_id, first, current_message_id, interrupted, firstSeen,
                   processed, classified, drafts, envVars, bodyVars>>

\* Lines 400-415 and 444-445: the listing holds the most recent identifier.
ListNonEmpty ==
    /\ pc = "list"
    /\ mailbox # <<>>
    /\ LET cur == mailbox[Len(mailbox)]
           last == IF first THEN cur ELSE last_message_id
       IN /\ current_message_id' = cur
          /\ last_message_id' = last
          /\ firstSeen' = IF first THEN cur ELSE firstSeen
          /\ pc' = IF cur # last THEN "extract" ELSE "sleep"
          /\ tickKind' = IF cur # last THEN "new"
                         ELSE IF first THEN "first" ELSE "unchanged"
    /\ first' = FALSE
    /\ failures' = 0
    /\ NewTick
    /\ UNCHANGED <<interrupted, processed, classified, drafts, envVars, bodyVars>>

\* The except clause of lines 441-443, entered from the call named `name`.
ProcessingError(name) ==
    /\ calls' = IF name = "extract_json" THEN calls ELSE Append(calls, name)
    /\ failed' = name
    /\ last_message_id' = LastAfterError(current_message_id, last_message_id)
    /\ processed' = processed \cup {current_message_id}
    /\ pc' = "sleep"

\* A call of the processing block returns and the block goes on to `next`.
CallReturns(name, next) ==
    /\ calls' = Append(calls, name)
    /\ returned' = returned + 1
    /\ pc' = next

\* Line 439 and the sleep of line 447.
ProcessingDone ==
    /\ last_message_id' = LastAfterSuccess(current_message_id, last_message_id)
    /\ processed' = processed \cup {current_message_id}

\* Line 418: extract_sent_message returns the record.
FetchOk ==
    /\ pc = "extract"
    /\ CallReturns("fetch_full_message", "classify")
    /\ UNCHANGED <<last_message_id, first, current_message_id, result, failed, tickKind,
                   failures, interrupted, firstSeen, processed, classified, drafts,
                   envVars, bodyVars>>

\* Line 418 raises.
FetchFails ==
    /\ pc = "extract"
    /\ ProcessingError("fetch_full_message")
    /\ UNCHANGED <<first, current_message_id, result, returned, tickKind, failures,
                   interrupted, firstSeen, classified, drafts, envVars, bodyVars>>

\* Lines 423-439: evaluate_followup returns text that parses to a verdict.
ClassifyOk ==
    /\ pc = "classify"
    /\ \E r \in Parseable :
          /\ result' = r
          /\ IF FollowUpRequired(r)
             THEN /\ CallReturns("evaluate_followup", "gendraft")
                  /\ UNCHANGED <<last_message_id, processed>>
             ELSE /\ CallReturns("evaluate_followup", "sleep")
                  /\ ProcessingDone
    /\ classified' = classified \cup {current_message_id}
    /\ UNCHANGED <<first, current_message_id, failed, tickKind, failures, interrupted,
                   firstSeen, drafts, envVars, bodyVars>>

\* Lines 423-426: evaluate_followup returns text that extract_json rejects
\* (json.loads raises) or that lacks the key (KeyError).
ClassifyUnparseable ==
    /\ pc = "classify"
    /\ \E r \in Unparseable : result' = r
    /\ calls' = Append(calls, "evaluate_followup")
    /\ returned' = returned + 1
    /\ failed' = "extract_json"
    /\ last_message_id' = LastAfterError(current_message_id, last_message_id)
    /\ processed' = processed \cup {current_message_id}
    /\ pc' = "sleep"
    /\ classified' = classified \cup {current_message_id}
    /\ UNCHANGED <<first, current_message_id, tickKind, failures, interrupted,
                   firstSeen, drafts, envVars, bodyVars>>

\* Line 423 raises.
ClassifyFails ==
    /\ pc = "classify"
    /\ ProcessingError("evaluate_followup")
    /\ UNCHANGED <<first, current_message_id, result, returned, tickKind, failures,
                   interrupted, firstSeen, classified, drafts, envVars, bodyVars>>

\* Lines 430, 333-334: generate_followup_draft returns the draft text.
GenerateOk ==
    /\ pc = "gendraft"
    /\ CallReturns("generate_followup_draft", "draft")
    /\ UNCHANGED <<last_message_id, first, current_message_id, result, failed, tickKind,
                   failures, interrupted, firstSeen, processed, classified, drafts,
                   envVars, bodyVars>>

\* Line 333 raises.
GenerateFails ==
    /\ pc = "gendraft"
    /\ ProcessingError("generate_followup_draft")
    /\ UNCHANGED <<first, current_message_id, result, returned, tickKind, failures,
                   interrupted, firstSeen, classified, drafts, envVars, bodyVars>>

\* Mutant of DraftOk: the reminder is left out after the draft.
DraftOk_NoReminder ==
    /\ pc = "draft"
    /\ CallReturns("create_gmail_draft", "sleep")
    /\ ProcessingDone
    /\ drafts' = drafts \cup {current_message_id}
    /\ UNCHANGED <<first, current_message_id, result, failed, tickKind,
                   failures, interrupted, firstSeen, classified,
                   envVars, bodyVars>>

\* Lines 336-340, 431: create_gmail_draft stores the draft and returns it.
DraftOk ==
    /\ pc = "draft"
    /\ CallReturns("create_gmail_draft", "remind")
    /\ drafts' = drafts \cup {current_message_id}
    /\ UNCHANGED <<last_message_id, first, current_message_id, result, failed, tickKind,
                   failures, interrupted, firstSeen, processed, classified,
                   envVars, bodyVars>>

\* Mutant of DraftFails: the failure is swallowed and the reminder still made.
DraftFails_GoesOn ==
    /\ pc = "draft"
    /\ calls' = Append(calls, "create_gmail_draft")
    /\ failed' = "create_gmail_draft"
    /\ pc' = "remind"
    /\ UNCHANGED <<last_message_id, first, current_message_id, result, returned, tickKind,
                   failures, interrupted, firstSeen, processed, classified, drafts,
                   envVars, bodyVars>>

\* Lines 336-340 raise.
DraftFails ==
    /\ pc = "draft"
    /\ ProcessingError("create_gmail_draft")
    /\ UNCHANGED <<first, current_message_id, result, returned, tickKind, failures,
                   interrupted, firstSeen, classified, drafts, envVars, bodyVars>>

\* Lines 433-439: create_followup_reminder inserts the event.
RemindOk ==
    /\ pc = "remind"
    /\ CallReturns("create_followup_reminder", "sleep")
    /\ ProcessingDone
    /\ UNCHANGED <<first, current_message_id, result, failed, tickKind, failures,
                   interrupted, firstSeen, classified, drafts, envVars, bodyVars>>

\* Line 433 raises.
RemindFails ==
    /\ pc = "remind"
    /\ ProcessingError("create_followup_reminder")
    /\ UNCHANGED <<first, current_message_id, result, returned, tickKind, failures,
                   interrupted, firstSeen, classified, drafts, envVars, bodyVars>>

\* Lines 404 and 447: time.sleep(poll_interval) returns, next iteration.
Sleep ==
    /\ pc = "sleep"
    /\ pc' = "list"
    /\ UNCHANGED <<last_message_id, first, current_message_id, result, calls, returned,
                   failed, tickKind, failures, interrupted, firstSeen, processed,
                   classified, drafts, envVars, bodyVars>>

\* Line 455: time.sleep(30) returns, next iteration.
Backoff ==
    /\ pc = "backoff"
    /\ pc' = "list"
    /\ UNCHANGED <<last_message_id, first, current_message_id, result, calls, returned,
                   failed, tickKind, failures, interrupted, firstSeen, processed,
                   classified, drafts, envVars, bodyVars>>

\* The user presses Ctrl-C: KeyboardInterrupt is raised where main stands.
Interrupt ==
    /\ Running
    /\ pc' = InterruptTarget(pc)
    /\ interrupted' = TRUE
    /\ UNCHANGED <<last_message_id, first, current_message_id, result, calls, returned,
                   failed, tickKind, failures, firstSeen, processed,
                   classified, drafts, envVars, bodyVars>>

\* The steps of the loop in which every external call returns.
LoopOk ==
    \/ ListEmpty
    \/ ListNonEmpty
    \/ FetchOk
    \/ ClassifyOk
    \/ GenerateOk
    \/ DraftOk
    \/ RemindOk
    \/ Sleep

\* The steps in which an external call raises or returns unusable text.
LoopFail ==
    \/ ListFails
    \/ Backoff
    \/ FetchFails
    \/ ClassifyUnparseable
    \/ ClassifyFails
    \/ GenerateFails
    \/ DraftFails
    \/ RemindFails

Next == SendMail \/ DeleteMail \/ LoopOk \/ LoopFail \/ Interrupt

Spec == Init /\ [][Next]_vars

\* The loop with every call returning, no interrupt and no deletion; the
\* single-threaded loop always takes its next step.
NextLive == SendMail \/ LoopOk

SpecLive == Init /\ [][NextLive]_vars /\ WF_vars(LoopOk)

\* extract_body applied to every bounded payload tree.
InitBody ==
    /\ LoopInit
    /\ EnvInit
    /\ \E n \in 1..MaxNodes :
          \E lab \in [1..n -> Labels] :
             \E par \in ParentMaps(n) : payload = PayloadTree(lab, par, n, 1)
    /\ body_text = ""
    /\ xpc = "call"

ApplyExtractBody ==
    /\ xpc = "call"
    /\ body_text' = extract_body(payload)
    /\ xpc' = "return"
    /\ UNCHANGED <<payload, loopVars, envVars>>

NextBody == ApplyExtractBody

SpecBody == InitBody /\ [][NextBody]_vars

\* ------------------------------------------------------------ properties

Count(name) == Cardinality({i \in DOMAIN calls : calls[i] = name})

IsPrefix(s, t) == Len(s) <= Len(t) /\ \A i \in DOMAIN s : s[i] = t[i]

\* The tick detected a new message and has returned to the sleep of line 447.
TickEnded == pc = "sleep" /\ tickKind = "new"

\* C1: the identifier adopted by the first non-empty listing is never handed
\* to extraction (nor to anything after it) at any point of the run.
C1_FirstSeenNeverEvaluated ==
    ~(firstSeen # None /\ tickKind = "new" /\ current_message_id = firstSeen
        /\ calls # <<>>)

\* C2: when a tick that detected a new identifier returns to the sleep, "last
\* seen" is that identifier, whether processing ended with a verdict or raised.
C2_LastSeenAdvances == TickEnded => last_message_id = current_message_id

C2_Witness ==
    /\ TickEnded
    /\ failed = "create_followup_reminder"
    /\ last_message_id = current_message_id

\* C3: no tick issues the extraction of an identifier whose processing tick
\* has already ended.
C3_ProcessedNeverAgain ==
    [][(pc = "extract" /\ calls' # calls) => current_message_id \notin processed]_vars

\* C4: a failure of the listing call leads to the backoff wait and nowhere
\* else, the backoff wait is left only for the next listing unless the user
\* interrupts, and main is never left without an interrupt.
C4_ListFailureBacksOff ==
    [][/\ (pc = "list" /\ failures' > failures) => pc' = "backoff"
       /\ (pc = "backoff" /\ ~interrupted') => pc' \in {"backoff", "list"}
       /\ ~interrupted' => pc' \notin {"stopped", "escaped"}]_vars

C4_Witness == pc = "list" /\ failures >= 2 /\ ~interrupted

\* C5: an interrupt delivered in any state of the loop ends main at
\* "Monitoring stopped", with no exception leaving main.
C5_InterruptStopsCleanly == interrupted => pc = "stopped"

\* C6 (as stated): a tick that detected a new message and got the verdict true
\* has issued exactly one draft creation and exactly one reminder insertion.
C6_ExactlyOneDraftAndReminder ==
    (TickEnded /\ result = "true") =>
        /\ Count("create_gmail_draft") = 1
        /\ Count("create_followup_reminder") = 1

\* C6 (amended): such a tick has issued at most one draft creation and at most
\* one reminder insertion, and exactly one of each when the generation of the
\* draft text and the creation of the draft returned without error.
C6_OneDraftAndReminderUnlessFailed ==
    (TickEnded /\ result = "true") =>
        /\ Count("create_gmail_draft") <= 1
        /\ Count("create_followup_reminder") <= 1
        /\ failed \notin {"generate_followup_draft", "create_gmail_draft"} =>
              /\ Count("create_gmail_draft") = 1
              /\ Count("create_followup_reminder") = 1

C6_Witness ==
    /\ TickEnded
    /\ result = "true"
    /\ failed = "none"
    /\ Count("create_gmail_draft") = 1
    /\ Count("create_followup_reminder") = 1

C8_EveryNewMessageJudged ==
    \A m \in Ids : (m \in sentAfterFirst) ~> (m \in classified)

Min(S) == CHOOSE x \in S : \A y \in S : x <= y

\* Rule (b) as stated: the direct parts whose MIME type is text/plain.
StatedPlainParts(p) == {i \in DOMAIN p.parts : p.parts[i].mimeType = TEXT_PLAIN}

\* Rule (b) as amended: those of them that carry body data.
AmendedPlainParts(p) ==
    {i \in DOMAIN p.parts :
        p.parts[i].mimeType = TEXT_PLAIN /\ p.parts[i].data # NoData}

RECURSIVE StatedPolicy(_)
StatedPolicy(p) ==
    LET plain == StatedPlainParts(p)
        found == {i \in DOMAIN p.parts : StatedPolicy(p.parts[i]) # ""}
    IN CASE p.data # NoData -> decode_base64(p.data)
         [] p.data = NoData /\ plain # {} -> decode_base64(p.parts[Min(plain)].data)
         [] p.data = NoData /\ plain = {} /\ found # {} ->
                StatedPolicy(p.parts[Min(found)])
         [] OTHER -> ""

RECURSIVE AmendedPolicy(_)
AmendedPolicy(p) ==
    LET plain == AmendedPlainParts(p)
        found == {i \in DOMAIN p.parts : AmendedPolicy(p.parts[i]) # ""}
    IN CASE p.data # NoData -> decode_base64(p.data)
         [] p.data = NoData /\ plain # {} -> decode_base64(p.parts[Min(plain)].data)
         [] p.data = NoData /\ plain = {} /\ found # {} ->
                AmendedPolicy(p.parts[Min(found)])
         [] OTHER -> ""

RECURSIVE NoTextAnywhere(_)
NoTextAnywhere(p) ==
    p.data = NoData /\ \A i \in DOMAIN p.parts : NoTextAnywhere(p.parts[i])

\* C9 (as stated): extract_body returns the payload's own body if present, else
\* the body of the first direct text/plain part, else the first non-empty
\* result of recursing into the parts in order, else the empty string.
C9_StatedPolicy ==
    xpc = "return" =>
        /\ body_text = StatedPolicy(payload)
        /\ NoTextAnywhere(payload) => body_text = ""

\* C9 (amended): as stated, with rule (b) reading "the body of the first direct
\* part whose MIME type is exactly text/plain and whose body data is not
\* empty"; a payload without text anywhere yields the empty string.
C9_AmendedPolicy ==
    xpc = "return" =>
        /\ body_text = AmendedPolicy(payload)
        /\ NoTextAnywhere(payload) => body_text = ""

\* A payload without a body of its own whose first text/plain part is empty
\* and whose second one holds text: extract_body returned the second's text.
C9_Witness ==
    /\ xpc = "return"
    /\ payload.data = NoData
    /\ Len(payload.parts) = 2
    /\ payload.parts[1].mimeType = TEXT_PLAIN
    /\ payload.parts[1].data = NoData
    /\ payload.parts[2].mimeType = TEXT_PLAIN
    /\ payload.parts[2].data = "Qg=="
    /\ body_text = "B"

\* C10: the calls of a processing tick are issued in the order fetch, classify,
\* draft (text, then creation), reminder, each only after every earlier one
\* returned; no reminder follows a failed draft, and a failed reminder leaves
\* the draft in the store and "last seen" advanced.
C10_CallsInOrder ==
    /\ IsPrefix(calls, CallOrder)
    /\ Len(calls) <= returned + 1
    /\ failed \in {"generate_followup_draft", "create_gmail_draft"} =>
          Count("create_followup_reminder") = 0
    /\ (pc = "sleep" /\ failed = "create_followup_reminder") =>
          /\ current_message_id \in drafts
          /\ last_message_id = current_message_id

C10_Witness ==
    /\ pc = "sleep"
    /\ failed = "create_followup_reminder"
    /\ calls = CallOrder
    /\ current_message_id \in drafts

====
